---- MODULE Spec2Model ----
\* Verification model of flexget/manager.py: the lock file protocol, delegation
\* to a running daemon, the scheduler control calls of the execute and daemon
\* commands, task ordering, the interval-gated database cleanup, the steps of
\* initialization, the database files of test mode, Manager.shutdown and the
\* one-manager rule.
EXTENDS Integers, Sequences, FiniteSets, TLC

\* ---------------------------------------------------------------- bounds
MaxDepth == 2
MaxTasks == 2
MaxTime == 16
MaxCalls == 3
MaxErrors == 2
MaxThreads == 2

\* ---------------------------------------------------------------- program constants
DB_CLEANUP_INTERVAL == 7
DefaultPriority == 65535
NeverCleaned == 0
BasePort == 6000

\* two processes are started on the same configuration, so on the same lock file
Procs == {1, 2}
\* PID of a process that died without removing its lock file
DeadPid == 3 * Cardinality(Procs) + 1
\* a task that declares no priority
NoPrio == -1
\* Python's None
None == -1
\* the scheduler runs no task
NoTask == 0
\* persist holds no 'last_cleanup'
Unset == -1

\* ---------------------------------------------------------------- lock file text
PidLine(n) == [k |-> "PID", v |-> n]
PortLine(n) == [k |-> "Port", v |-> n]
NoFile == [exists |-> FALSE, lines |-> <<>>]
File(ls) == [exists |-> TRUE, lines |-> ls]

\* open(lockfile, 'w'): creates the file or truncates it to zero length
Truncate(f) == File(<<>>)

\* the buffered text is written from offset 0 when the file is closed; text
\* another writer put beyond that length stays in place
Overlay(f, ls) ==
  File(ls \o (IF Len(f.lines) > Len(ls)
              THEN SubSeq(f.lines, Len(ls) + 1, Len(f.lines)) ELSE <<>>))

\* the lines write_lock writes
LockText(mypid, ipc_port) ==
  IF ipc_port # None /\ ipc_port # 0
  THEN <<PidLine(mypid), PortLine(ipc_port)>>
  ELSE <<PidLine(mypid)>>

\* the text write_lock leaves when its file is closed; a file removed since the
\* open is not brought back
write_lock(mypid, f, ipc_port) ==
  IF f.exists THEN Overlay(f, LockText(mypid, ipc_port)) ELSE f

\* ---------------------------------------------------------------- _read_lock values
RFalse == [isbool |-> TRUE, v |-> 0]
RTrue == [isbool |-> TRUE, v |-> 1]
RPort(n) == [isbool |-> FALSE, v |-> n]
Truthy(r) == r.v # 0

NoShut == [req |-> "none", n |-> 0, r |-> 0, c |-> 0, ab |-> FALSE]

\* ---------------------------------------------------------------- database files
\* a file name is the sequence of the words it is made of
NoName == <<>>
\* 'db-%s.sqlite' % config_name
ProdName == <<"db", "config">>
\* 'test-%s.sqlite' % config_name
TestName == <<"test", "config">>
\* a name db_filename has been set to from outside init_sqlalchemy
OtherName == <<"scratch", "config">>
DbNames == {ProdName, TestName, OtherName}

\* what a file holds: nothing ("absent"), what earlier runs left in the
\* production database ("orig") or in a test copy ("stale"), the bare tables
\* ("empty"), or what this run wrote ("written")
DbContents == {"absent", "orig", "stale", "empty", "written"}

\* `word in name`
Contains(word, name) == \E i \in 1..Len(name) : name[i] = word

\* init_sqlalchemy: db_filename is always the production file
DbFilenameProd(test) == ProdName

\* init_sqlalchemy: the file the engine is created on
DbFilename(test) == IF test THEN TestName ELSE ProdName

\* init_sqlalchemy in test mode: shutil.copy of the production file, if it exists
DbCopied(files, test) ==
  IF test /\ files[ProdName] # "absent"
  THEN [files EXCEPT ![TestName] = files[ProdName]]
  ELSE files

\* init_sqlalchemy: drop_all under --del-db, then create_all, which creates the
\* file and leaves existing tables alone
DbOpened(files, name, del_db) ==
  [files EXCEPT ![name] = IF del_db \/ files[name] = "absent" THEN "empty" ELSE files[name]]

\* a session commits
DbWrite(files, name) == [files EXCEPT ![name] = "written"]

\* os.remove
DbRemove(files, name) == [files EXCEPT ![name] = "absent"]

VARIABLES
  lockfile,     \* contents of <config_base>/.<config_name>-lock
  config,       \* the 'tasks' section as declared: the priority of each task
  proc,         \* the Manager of each process, see Blank
  now,          \* datetime.now(), in days since 1900-01-01
  last_cleanup, \* persist['last_cleanup'], Unset when never written
  calls,        \* the db_cleanup calls made so far
  dbfiles       \* the SQLite files in config_base: what each one holds

vars == <<lockfile, config, proc, now, last_cleanup, calls, dbfiles>>

\* a process before it is started
Blank(p) ==
  [pc |-> "new",          \* position in Manager.__init__ / run_cli_command
   command |-> "none",    \* options.cli_command
   flag |-> FALSE,        \* options.daemonize (daemon), options.lock_required (plugin)
   pid |-> p,             \* os.getpid()
   has_lock |-> FALSE,    \* Manager._has_lock
   acq |-> <<>>,          \* the `acquired` local of each active acquire_lock() frame
   rl |-> RFalse,         \* value of the last _read_lock()
   stale |-> FALSE,       \* the last _read_lock() found the PID of a dead process
   unw |-> None,          \* exit status being raised through the frames
   status |-> None,       \* exit status once the process has ended
   why |-> "",            \* what ended the process
   tasks |-> <<>>,        \* the sorted task list of the execute branch
   idx |-> 0,             \* loop index over tasks
   sent |-> <<>>,         \* invocations forwarded through IPCClient: <<port, task>>
   sched |-> "Idle",      \* scheduler state
   queue |-> <<>>,        \* scheduler queue
   running |-> NoTask,    \* the task the scheduler is running
   completed |-> <<>>,    \* tasks run to completion
   dropped |-> <<>>,      \* tasks discarded from the queue
   shutAt |-> NoShut,     \* the work pending at the first scheduler.shutdown in Running
   fq |-> TRUE,           \* finish_queue of the Manager.shutdown in progress
   ret |-> "none",        \* what follows the Manager.shutdown in progress
   ipc |-> "off",         \* the IPCServer thread
   wrote |-> FALSE,       \* the process has opened the lock file for writing
   leftInner |-> FALSE,   \* an acquire_lock() nested in the current outermost one has been left
   test |-> FALSE,        \* options.test
   del_db |-> FALSE,      \* options.del_db
   platform |-> "posix",  \* sys.platform: "posix" or "win"
   db_filename |-> NoName, \* Manager.db_filename
   engine |-> "none",     \* Manager.engine: "none", "open" or "disposed"
   registered |-> FALSE,  \* the module global `manager` is this instance
   traced |-> FALSE,      \* the run is observed: events is written
   events |-> <<>>,       \* what the run did, in order: hooks fired, files touched
   errors |-> <<>>,       \* observed: the errors validate_config returned
   logged |-> <<>>]       \* observed: the errors passed to log.critical

\* the memory of a process is gone when it has ended: its exit status is left,
\* the record that it once opened the lock file for writing, and what an
\* observer of the run has seen
Norm(r) ==
  IF r.pc = "exited"
  THEN [Blank(r.pid) EXCEPT !.pc = "exited", !.status = r.status, !.why = r.why,
                            !.wrote = r.wrote, !.traced = r.traced,
                            !.events = r.events, !.errors = r.errors,
                            !.logged = r.logged]
  ELSE r

Set(p, r) == proc' = [proc EXCEPT ![p] = Norm(r)]

\* ---------------------------------------------------------------- helpers from the code
\* flexget.utils.tools.pid_exists: a process with this PID is running
pid_exists(n) == \E q \in Procs : proc[q].pid = n /\ proc[q].pc \notin {"new", "exited"}

\* _read_lock without the pid_exists test: every foreign PID counts as a holder
_read_lock_trusting(mypid, f) ==
  IF f.lines[1].v = mypid THEN RFalse
  ELSE IF Len(f.lines) > 1 THEN RPort(f.lines[2].v) ELSE RTrue

\* Manager._read_lock on a file that exists and holds at least the PID line
_read_lock(mypid, f) ==
  LET filepid == f.lines[1].v
      port == IF Len(f.lines) > 1 THEN RPort(f.lines[2].v) ELSE RTrue
  IN IF filepid = mypid THEN RFalse
     ELSE IF ~pid_exists(filepid) THEN RFalse
     ELSE port

\* a check_lock that never reports a lock
check_lock_blind(r) == FALSE

\* Manager.check_lock
check_lock(r) == Truthy(r)

\* Manager.check_ipc_port
check_ipc_port(r) == IF ~r.isbool THEN r.v ELSE None

\* `if port:` in the execute branch
IsPort(port) == port # None /\ port # 0

\* open() and readlines() in _read_lock: what the file gives at that moment
ReadOutcome(f) ==
  IF ~f.exists THEN "IOError"
  ELSE IF f.lines = <<>> THEN "IndexError"
  ELSE "ok"

\* the file names a holder that is neither this process nor any running process
StaleFor(mypid, f) ==
  /\ ReadOutcome(f) = "ok"
  /\ f.lines[1].v # mypid
  /\ ~pid_exists(f.lines[1].v)

\* another running process has _has_lock set
OtherHolds(p) == \E q \in Procs \ {p} : proc[q].has_lock /\ proc[q].pc # "exited"

\* ---------------------------------------------------------------- task selection
Key(cfg, t) == IF cfg[t] = NoPrio THEN DefaultPriority ELSE cfg[t]

\* sorted() is stable: an element goes behind every element whose key is not larger
InsertSorted(cfg, s, t) ==
  LET n == Cardinality({i \in 1..Len(s) : Key(cfg, s[i]) <= Key(cfg, t)})
  IN SubSeq(s, 1, n) \o <<t>> \o SubSeq(s, n + 1, Len(s))

RECURSIVE sorted(_, _)
sorted(cfg, s) ==
  IF s = <<>> THEN <<>>
  ELSE InsertSorted(cfg, sorted(cfg, SubSeq(s, 1, Len(s) - 1)), s[Len(s)])

RECURSIVE Orderings(_)
Orderings(S) ==
  IF S = {} THEN {<<>>}
  ELSE UNION {{<<x>> \o s : s \in Orderings(S \ {x})} : x \in S}

\* manager.tasks: the keys of the 'tasks' dict, in the dict's iteration order
ManagerTasks(cfg) == Orderings(1..Len(cfg))

\* the iteration orders of the set() built from the --tasks patterns; a pattern
\* stands for the declared names it matches
FilteredTasks(cfg, patterns) == Orderings(UNION patterns)

\* options.execute.tasks: no --tasks, or a set of patterns
NoFilter == {{0}}

\* the execute branch up to the sorted() call
SelectTasks(cfg, patterns) ==
  {sorted(cfg, s) : s \in IF patterns = NoFilter THEN ManagerTasks(cfg)
                           ELSE FilteredTasks(cfg, patterns)}

\* ---------------------------------------------------------------- scheduler (flexget.scheduler)
Alive(s) == s \in {"Running", "Draining", "Aborting"}

SchedKeyLe(cfg, a, b) == Key(cfg, a) < Key(cfg, b) \/ (Key(cfg, a) = Key(cfg, b) /\ a <= b)

\* Scheduler.execute: enqueue, valid only in Running; the queue is kept in
\* ascending priority, ties in declaration order
SchedulerExecute(cfg, s, q, t) ==
  IF s # "Running" THEN q
  ELSE LET n == Cardinality({i \in 1..Len(q) : SchedKeyLe(cfg, q[i], t)})
       IN SubSeq(q, 1, n) \o <<t>> \o SubSeq(q, n + 1, Len(q))

\* Scheduler.start
SchedulerStart(s) == IF s = "Idle" THEN "Running" ELSE s

\* Scheduler.shutdown(finish_queue): the state it leaves
SchedulerShutdown(s, q, r, finish) ==
  IF ~Alive(s) THEN s
  ELSE IF finish
       THEN (IF s = "Aborting" THEN (IF r = NoTask THEN "Stopped" ELSE "Aborting")
             ELSE IF q = <<>> /\ r = NoTask THEN "Stopped" ELSE "Draining")
       ELSE (IF r = NoTask THEN "Stopped" ELSE "Aborting")

\* scheduler.shutdown(finish_queue=finish) on a Manager; shutAt remembers the
\* first request made while Running, and an abort that follows a drain
SchedShutdownCall(me, finish) ==
  LET abort == ~finish /\ Alive(me.sched) IN
  [me EXCEPT
    !.sched = SchedulerShutdown(me.sched, me.queue, me.running, finish),
    !.queue = IF abort THEN <<>> ELSE me.queue,
    !.dropped = IF abort THEN me.dropped \o me.queue ELSE me.dropped,
    !.shutAt =
       IF me.sched = "Running" /\ me.shutAt.req = "none"
       THEN [req |-> IF finish THEN "drain" ELSE "abort",
             n |-> Len(me.queue), r |-> IF me.running # NoTask THEN 1 ELSE 0,
             c |-> Len(me.completed), ab |-> FALSE]
       ELSE IF me.sched = "Draining" /\ ~finish
            THEN [me.shutAt EXCEPT !.ab = TRUE]
            ELSE me.shutAt]

\* ---------------------------------------------------------------- control transfer
Goto(me, l) == [me EXCEPT !.pc = l]

\* the process ends; its threads end with it
Exited(me, st, reason) ==
  [me EXCEPT !.pc = "exited", !.status = st, !.why = reason, !.ipc = "off"]

\* an exception that ends the process without unwinding its frames
RaiseAbrupt(me, st, reason) == Exited(me, st, reason)

\* SystemExit or another exception raised in the main thread: it passes through
\* the finally clause of every active acquire_lock() frame
Raise(me, st, reason) ==
  IF me.acq = <<>>
  THEN Exited(me, st, reason)
  ELSE [me EXCEPT !.pc = "wexit", !.unw = st, !.why = reason]

\* where the body of the `with self.acquire_lock()` of each command starts
Body(me) ==
  CASE me.command = "execute" -> "ex_start"
    [] me.command = "daemon" -> "dm_ipc"
    [] me.command = "webui" -> "wb"
    [] OTHER -> "cb"

Rest(me) == SubSeq(me.acq, 1, Len(me.acq) - 1)

\* the innermost acquire_lock() frame is left: what runs next
Leave(me) ==
  LET m == [me EXCEPT !.acq = Rest(me),
                      !.leftInner = Len(me.acq) > 1 /\ (me.leftInner \/ me.unw = None)]
  IN IF me.unw # None
     THEN (IF m.acq = <<>> THEN Exited(m, me.unw, me.why) ELSE Goto(m, "wexit"))
     ELSE IF me.command = "plugin" /\ (m.acq # <<>> \/ ~me.flag)
          THEN Goto(m, "cb")
          ELSE Exited(m, 0, "done")

\* ---------------------------------------------------------------- Manager.__init__
Commands == {"execute", "daemon", "plugin"}
\* the commands built into run_cli_command
BuiltinCommands == {"execute", "daemon", "webui"}

\* the options of a process: options.test, options.del_db, sys.platform, and
\* whether what the run does is recorded
Options == [test : BOOLEAN, del_db : BOOLEAN, platform : {"posix", "win"}, traced : BOOLEAN]

\* a production run on a POSIX system
SpecOptions == {[test |-> FALSE, del_db |-> FALSE, platform |-> "posix", traced |-> FALSE]}

\* the record of an observed run
Emit(me, es) == IF me.traced THEN [me EXCEPT !.events = me.events \o es] ELSE me

\* a process is started with its parsed options; processes are numbered in the
\* order in which they are started
StartWith(p, cmds, opts) ==
  /\ proc[p].pc = "new"
  /\ \A q \in Procs : q < p => proc[q].pc # "new"
  /\ \E c \in cmds, f \in BOOLEAN, o \in opts :
       /\ (c = "execute" => ~f)
       /\ Set(p, [proc[p] EXCEPT !.pc = "init_db", !.command = c, !.flag = f,
                                 !.test = o.test, !.del_db = o.del_db,
                                 !.platform = o.platform, !.traced = o.traced])
  /\ UNCHANGED <<lockfile, config, now, last_cleanup, calls, dbfiles>>

Start(p) == StartWith(p, Commands, SpecOptions)

\* initialize() with the hook fired before the database is there
InitDbStepsHookFirst(outcome) ==
  CASE outcome = "no config" -> <<"find_config">>
    [] OTHER -> <<"find_config", "manager.before_config_load", "init_sqlalchemy">>

\* initialize(): what find_config and init_sqlalchemy get to, by their outcome
InitDbSteps(outcome) ==
  CASE outcome = "no config" -> <<"find_config">>
    [] OTHER -> <<"find_config", "init_sqlalchemy">>

\* initialize(): find_config, which ends the process when there is no config
\* file, then init_sqlalchemy: the test copy, the engine, drop_all under
\* --del-db, create_all
InitDb(p) ==
  /\ proc[p].pc = "init_db"
  /\ \E outcome \in {"ok", "no config", "no database"} :
       LET me == Emit(proc[p], InitDbSteps(outcome))
           name == DbFilename(me.test)
       IN CASE outcome = "no config" ->
                 /\ Set(p, Raise(me, 1, "no config"))
                 /\ UNCHANGED dbfiles
            [] outcome = "no database" ->
                 /\ Set(p, Raise(me, 1, "no database"))
                 /\ dbfiles' = DbCopied(dbfiles, me.test)
            [] OTHER ->
                 /\ Set(p, [me EXCEPT !.pc = "init_cfg", !.db_filename = name,
                                      !.engine = "open"])
                 /\ dbfiles' = DbOpened(DbCopied(dbfiles, me.test), name, me.del_db)
  /\ UNCHANGED <<lockfile, config, now, last_cleanup, calls>>

\* initialize(): what load_config and validate_config get to, by their outcome
LoadSteps(outcome) ==
  CASE outcome = "unreadable" ->
         <<"manager.before_config_load", "load_config", "parse error">>
    [] OTHER -> <<"manager.before_config_load", "load_config",
                  "manager.before_config_validate", "validate_config">>

\* what validate_config may return: the errors are numbered
ValidationErrors == {[i \in 1..n |-> i] : n \in 0..MaxErrors}

\* an initialize() that goes on whatever validate_config returned
AfterValidateLenient(errs) == "init_hooks"

\* initialize(): `if errors:` leads to the shutdown, and back to __init__ otherwise
AfterValidate(errs) == IF errs # <<>> THEN "msh" ELSE "init_hooks"

\* initialize(): load_config and validate_config with the hooks around them;
\* a file that does not parse ends the process in load_config; validation
\* errors are logged one by one and lead to self.shutdown(finish_queue=False)
\* and sys.exit(1)
LoadConfig(p) ==
  /\ proc[p].pc = "init_cfg"
  /\ \/ Set(p, Raise(Emit(proc[p], LoadSteps("unreadable")), 1, "config"))
     \/ \E errs \in ValidationErrors :
          LET me == Emit(proc[p], LoadSteps("ok"))
              seen == IF me.traced THEN errs ELSE <<>>
          IN Set(p, IF AfterValidate(errs) = "msh"
                    THEN [me EXCEPT !.pc = "msh", !.fq = FALSE, !.ret = "exit1",
                                    !.errors = seen, !.logged = seen]
                    ELSE [me EXCEPT !.pc = AfterValidate(errs), !.errors = seen])
  /\ UNCHANGED <<lockfile, config, now, last_cleanup, calls, dbfiles>>

\* __init__ after initialize(): the hooks fired, manager.db_upgraded only when
\* a handler of manager.upgrade has set db_upgraded
StartupSteps(upgraded) ==
  IF upgraded
  THEN <<"manager.upgrade", "db_upgraded = True", "manager.db_upgraded", "manager.startup">>
  ELSE <<"manager.upgrade", "manager.startup">>

\* __init__ after initialize(): `manager = self`, then manager.upgrade, which
\* writes the schema versions, manager.db_upgraded and manager.startup
StartupHooks(p) ==
  /\ proc[p].pc = "init_hooks"
  /\ \E upgraded \in BOOLEAN :
       Set(p, [Emit(proc[p], StartupSteps(upgraded))
                 EXCEPT !.pc = "cmd", !.registered = TRUE])
  /\ dbfiles' = DbWrite(dbfiles, proc[p].db_filename)
  /\ UNCHANGED <<lockfile, config, now, last_cleanup, calls>>

\* ---------------------------------------------------------------- run_cli_command
\* the --tasks values the processes are run with: none, or one pattern that
\* matches the first declared task
SpecFilters == {NoFilter, {{1}}}

\* a daemon that goes for the lock at once, whatever --daemonize says
DaemonEntryDirect(daemonize) == "acq_enter"

\* the daemon and webui branches: `if options.daemonize: self.daemonize()`
\* comes before `with self.acquire_lock()`
DaemonEntry(daemonize) == IF daemonize THEN "daemonize" ELSE "acq_enter"

\* run_cli_command up to the first use of the lock file
RunCliWith(p, filters) ==
  /\ proc[p].pc = "cmd"
  /\ CASE proc[p].command = "execute" ->
            \E f \in filters : \E ts \in SelectTasks(config, f) :
               Set(p, [proc[p] EXCEPT !.pc = "ipc_exists", !.tasks = ts])
       [] proc[p].command = "daemon" ->
            Set(p, Goto(proc[p], DaemonEntry(proc[p].flag)))
       [] proc[p].command = "webui" ->
            \E installed \in BOOLEAN :
               Set(p, IF installed THEN Goto(proc[p], DaemonEntry(proc[p].flag))
                      ELSE [proc[p] EXCEPT !.pc = "msh", !.fq = TRUE, !.ret = "nodep"])
       [] OTHER ->
            Set(p, Goto(proc[p], IF proc[p].flag THEN "acq_enter" ELSE "cb"))
  /\ UNCHANGED <<lockfile, config, now, last_cleanup, calls, dbfiles>>

RunCli(p) == RunCliWith(p, SpecFilters)

\* the PID of the process that survives the two forks of process p
ForkedPid(p) == p + Cardinality(Procs)

\* daemonize(): on Windows an error is logged and the call returns; elsewhere
\* the two forks, each parent leaving with sys.exit(0), after which the
\* surviving process has a new PID; a fork that fails ends the process
Daemonize(p) ==
  /\ proc[p].pc = "daemonize"
  /\ IF proc[p].platform = "win"
     THEN Set(p, Goto(Emit(proc[p], <<"daemonize: unsupported">>), "acq_enter"))
     ELSE \E forked \in BOOLEAN :
            Set(p, IF forked
                   THEN [Emit(proc[p], <<"daemonize">>)
                           EXCEPT !.pc = "acq_enter", !.pid = ForkedPid(p)]
                   ELSE Raise(proc[p], 1, "fork failed"))
  /\ UNCHANGED <<lockfile, config, now, last_cleanup, calls, dbfiles>>

\* ---------------------------------------------------------------- daemonize, step by step
\* The record of p follows the process that goes on after each fork; what the
\* process left behind by fork n does is written into the same history.
ForkEvent(n) == IF n = 1 THEN "fork 1" ELSE "fork 2"
ClearEvent(n) == IF n = 1 THEN "parent 1: atexit cleared" ELSE "parent 2: atexit cleared"
ExitEvent(n) == IF n = 1 THEN "parent 1: exit 0" ELSE "parent 2: exit 0"

\* the PID of the process between the two forks
MidPid(p) == p + 2 * Cardinality(Procs)

\* `if threading.activeCount() != 1: log.critical(...)`
ThreadWarning(threads) == IF threads # 1 THEN <<"log.critical threads">> ELSE <<>>

\* daemonize() up to the first fork: the platform test and the thread count
DzEnter(p) ==
  /\ proc[p].pc = "daemonize"
  /\ IF proc[p].platform = "win"
     THEN Set(p, Goto(Emit(proc[p], <<"daemonize: unsupported">>), "acq_enter"))
     ELSE \E threads \in 1..MaxThreads :
            Set(p, Goto(Emit(proc[p], ThreadWarning(threads)), "dz_fork1"))
  /\ UNCHANGED <<lockfile, config, now, last_cleanup, calls, dbfiles>>

\* os.fork(), the n-th: the child goes on; OSError ends the process with status 1
DzFork(p, n) ==
  /\ proc[p].pc = (IF n = 1 THEN "dz_fork1" ELSE "dz_fork2")
  /\ \E forked \in BOOLEAN :
       Set(p, IF forked
              THEN [Emit(proc[p], <<ForkEvent(n)>>)
                      EXCEPT !.pc = IF n = 1 THEN "dz_detach" ELSE "dz_redirect",
                             !.pid = IF n = 1 THEN MidPid(p) ELSE ForkedPid(p)]
              ELSE Raise(proc[p], 1, "fork failed"))
  /\ UNCHANGED <<lockfile, config, now, last_cleanup, calls, dbfiles>>

\* the process that fork n returned a child PID to: atexit._exithandlers = [],
\* then sys.exit(0)
DzParent(p, n) ==
  /\ proc[p].traced
  /\ \E i \in 1..Len(proc[p].events) : proc[p].events[i] = ForkEvent(n)
  /\ \A i \in 1..Len(proc[p].events) : proc[p].events[i] # ExitEvent(n)
  /\ proc' = [proc EXCEPT ![p].events = @ \o <<ClearEvent(n), ExitEvent(n)>>]
  /\ UNCHANGED <<lockfile, config, now, last_cleanup, calls, dbfiles>>

\* a detach that makes the process a session leader first
DetachStepsLeaderFirst == <<"setsid", "chdir /", "umask 0">>

\* between the forks: os.chdir('/'), os.setsid(), os.umask(0)
DetachSteps == <<"chdir /", "setsid", "umask 0">>

DzDetach(p) ==
  /\ proc[p].pc = "dz_detach"
  /\ Set(p, Goto(Emit(proc[p], DetachSteps), "dz_fork2"))
  /\ UNCHANGED <<lockfile, config, now, last_cleanup, calls, dbfiles>>

\* after the second fork: stdin, stdout and stderr are put on /dev/null, and
\* daemonize returns
DzRedirect(p) ==
  /\ proc[p].pc = "dz_redirect"
  /\ Set(p, Goto(Emit(proc[p], <<"redirect stdio", "daemonize returns">>), "acq_enter"))
  /\ UNCHANGED <<lockfile, config, now, last_cleanup, calls, dbfiles>>

\* webui.start(self) inside the lock: it serves until it is stopped
WebuiStart(p) ==
  /\ proc[p].pc = "wb"
  /\ Set(p, Goto(Emit(proc[p], <<"webui.start">>), "wexit"))
  /\ UNCHANGED <<lockfile, config, now, last_cleanup, calls, dbfiles>>

\* ---------------------------------------------------------------- reading the lock file
\* _read_lock() once the os.path.exists test has passed: the open and the parse
ReadLock(me, f) ==
  [me EXCEPT !.rl = IF ReadOutcome(f) = "ok" THEN _read_lock(me.pid, f) ELSE me.rl,
             !.stale = StaleFor(me.pid, f)]

\* check_ipc_port() in the execute branch: the os.path.exists test
IpcExists(p) ==
  /\ proc[p].pc = "ipc_exists"
  /\ Set(p, IF lockfile.exists
            THEN Goto(proc[p], "ipc_read")
            ELSE [proc[p] EXCEPT !.pc = "acq_enter", !.rl = RFalse, !.stale = FALSE])
  /\ UNCHANGED <<lockfile, config, now, last_cleanup, calls, dbfiles>>

\* check_ipc_port() in the execute branch: the read, and `if port:`
IpcRead(p) ==
  /\ proc[p].pc = "ipc_read"
  /\ LET me == ReadLock(proc[p], lockfile) IN
     Set(p, IF ReadOutcome(lockfile) # "ok"
            THEN Raise(me, 1, ReadOutcome(lockfile))
            ELSE Goto(me, IF IsPort(check_ipc_port(me.rl)) THEN "dl_conn" ELSE "acq_enter"))
  /\ UNCHANGED <<lockfile, config, now, last_cleanup, calls, dbfiles>>

\* ---------------------------------------------------------------- acquire_lock
\* an acquire_lock that does not look at _has_lock
NeverHeld(me) == FALSE

\* `if not self._has_lock` in acquire_lock
AlreadyHeld(me) == me.has_lock

\* entering `with self.acquire_lock()`: the _has_lock test and, without the
\* flag, the os.path.exists test of check_lock(); _has_lock is set when no
\* file is there
AcquireEnter(p) ==
  /\ proc[p].pc = "acq_enter"
  /\ LET me == [proc[p] EXCEPT !.acq = Append(proc[p].acq, FALSE)] IN
     Set(p, IF AlreadyHeld(me) THEN Goto(me, Body(me))
            ELSE IF lockfile.exists THEN Goto(me, "acq_read")
            ELSE [me EXCEPT !.pc = "acq_trunc", !.rl = RFalse, !.stale = FALSE,
                            !.has_lock = TRUE])
  /\ UNCHANGED <<lockfile, config, now, last_cleanup, calls, dbfiles>>

\* check_lock() in acquire_lock: the read; _has_lock is set when it finds no lock
AcquireRead(p) ==
  /\ proc[p].pc = "acq_read"
  /\ LET me == ReadLock(proc[p], lockfile) IN
     Set(p, IF ReadOutcome(lockfile) # "ok" THEN Raise(me, 1, ReadOutcome(lockfile))
            ELSE IF check_lock(me.rl) THEN Goto(me, "acq_fail")
            ELSE [me EXCEPT !.pc = "acq_trunc", !.has_lock = TRUE])
  /\ UNCHANGED <<lockfile, config, now, last_cleanup, calls, dbfiles>>

\* acquire_lock: the lock is held by another process: the file is read again
\* for the message, then sys.exit(1)
AcquireFail(p) ==
  /\ proc[p].pc = "acq_fail"
  /\ Set(p, Raise(proc[p], 1, IF lockfile.exists THEN "contention" ELSE "IOError"))
  /\ UNCHANGED <<lockfile, config, now, last_cleanup, calls, dbfiles>>

\* write_lock(): open(self.lockfile, 'w')
WriteOpen(p) ==
  /\ proc[p].pc = "acq_trunc"
  /\ lockfile' = Truncate(lockfile)
  /\ Set(p, [proc[p] EXCEPT !.pc = "acq_flush", !.wrote = TRUE])
  /\ UNCHANGED <<config, now, last_cleanup, calls, dbfiles>>

\* write_lock() called by acquire_lock: the writes and the close; acquired = True
WriteClose(p) ==
  /\ proc[p].pc = "acq_flush"
  /\ lockfile' = write_lock(proc[p].pid, lockfile, None)
  /\ Set(p, [Emit(proc[p], <<"write_lock">>)
               EXCEPT !.pc = Body(proc[p]), !.acq = Rest(proc[p]) \o <<TRUE>>])
  /\ UNCHANGED <<config, now, last_cleanup, calls, dbfiles>>

\* the finally clause of acquire_lock: release_lock() when this frame acquired;
\* the os.path.exists test of release_lock
WithExit(p) ==
  /\ proc[p].pc = "wexit"
  /\ LET me == proc[p] IN
     Set(p, IF me.acq[Len(me.acq)]
            THEN (IF lockfile.exists THEN Goto(me, "rel_remove")
                  ELSE Leave([me EXCEPT !.has_lock = FALSE]))
            ELSE Leave(me))
  /\ UNCHANGED <<lockfile, config, now, last_cleanup, calls, dbfiles>>

\* release_lock(): os.remove; it raises when the file is gone since the test,
\* and _has_lock is then left set
ReleaseRemove(p) ==
  /\ proc[p].pc = "rel_remove"
  /\ IF lockfile.exists
     THEN /\ lockfile' = NoFile
          /\ Set(p, Leave([Emit(proc[p], <<"release_lock">>) EXCEPT !.has_lock = FALSE]))
     ELSE /\ UNCHANGED lockfile
          /\ Set(p, Leave([proc[p] EXCEPT !.unw = 1, !.why = "OSError"]))
  /\ UNCHANGED <<config, now, last_cleanup, calls, dbfiles>>

\* ---------------------------------------------------------------- plugin command
\* options.cli_command_callback: it may take the lock again, inside the lock
CbNest(p) ==
  /\ proc[p].pc = "cb"
  /\ Len(proc[p].acq) < MaxDepth
  /\ Set(p, Goto(proc[p], "acq_enter"))
  /\ UNCHANGED <<lockfile, config, now, last_cleanup, calls, dbfiles>>

\* the innermost `with` block ends
CbLeave(p) ==
  /\ proc[p].pc = "cb"
  /\ proc[p].acq # <<>>
  /\ Set(p, Goto(proc[p], "wexit"))
  /\ UNCHANGED <<lockfile, config, now, last_cleanup, calls, dbfiles>>

\* the callback of a command that needs no lock returns
CbReturn(p) ==
  /\ proc[p].pc = "cb"
  /\ proc[p].acq = <<>>
  /\ Set(p, Exited(proc[p], 0, "done"))
  /\ UNCHANGED <<lockfile, config, now, last_cleanup, calls, dbfiles>>

\* ---------------------------------------------------------------- scheduler thread
\* the scheduler thread takes the head of the queue
TaskStart(p) ==
  /\ proc[p].pc # "exited"
  /\ proc[p].sched \in {"Running", "Draining"}
  /\ proc[p].running = NoTask
  /\ proc[p].queue # <<>>
  /\ Set(p, [proc[p] EXCEPT !.running = Head(proc[p].queue), !.queue = Tail(proc[p].queue)])
  /\ UNCHANGED <<lockfile, config, now, last_cleanup, calls, dbfiles>>

\* the running task ends, its session committed; the scheduler stops when
\* nothing is left to do
TaskFinish(p) ==
  /\ proc[p].pc # "exited"
  /\ proc[p].running # NoTask
  /\ LET me == proc[p] IN
     Set(p, [me EXCEPT
               !.completed = Append(me.completed, me.running),
               !.running = NoTask,
               !.sched = IF me.sched = "Aborting" \/ (me.sched = "Draining" /\ me.queue = <<>>)
                         THEN "Stopped" ELSE me.sched])
  /\ dbfiles' = DbWrite(dbfiles, proc[p].db_filename)
  /\ UNCHANGED <<lockfile, config, now, last_cleanup, calls>>

\* ---------------------------------------------------------------- execute, run locally
\* a loop that stops one name early
AfterEnqueueEarly(ts, i) == IF i + 1 >= Len(ts) THEN "ex_shut" ELSE "ex_enq"

\* the loop `for name in tasks: self.scheduler.execute(name)`, i names done
AfterEnqueue(ts, i) == IF i >= Len(ts) THEN "ex_shut" ELSE "ex_enq"

\* manager.execute.started, scheduler.start()
ExStart(p) ==
  /\ proc[p].pc = "ex_start"
  /\ Set(p, [Emit(proc[p], <<"manager.execute.started">>)
               EXCEPT !.sched = SchedulerStart(proc[p].sched), !.idx = 1,
                      !.pc = AfterEnqueue(proc[p].tasks, 0)])
  /\ UNCHANGED <<lockfile, config, now, last_cleanup, calls, dbfiles>>

\* scheduler.execute(name) for the next name of the sorted list
ExEnqueue(p) ==
  /\ proc[p].pc = "ex_enq"
  /\ LET me == proc[p] IN
     Set(p, [me EXCEPT !.queue = SchedulerExecute(config, me.sched, me.queue, me.tasks[me.idx]),
                       !.idx = me.idx + 1,
                       !.pc = AfterEnqueue(me.tasks, me.idx)])
  /\ UNCHANGED <<lockfile, config, now, last_cleanup, calls, dbfiles>>

\* scheduler.shutdown(finish_queue=True)
ExDrain(p) ==
  /\ proc[p].pc = "ex_shut"
  /\ Set(p, Goto(SchedShutdownCall(proc[p], TRUE), "ex_wait"))
  /\ UNCHANGED <<lockfile, config, now, last_cleanup, calls, dbfiles>>

\* a wait whose return fires no hook
WaitReturnStepsSilent == <<>>

\* the else clause of the wait
WaitReturnSteps == <<"manager.execute.completed">>

\* scheduler.wait() returns, manager.execute.completed, then self.shutdown(False)
ExWaitReturn(p) ==
  /\ proc[p].pc = "ex_wait"
  /\ ~Alive(proc[p].sched)
  /\ Set(p, [Emit(proc[p], WaitReturnSteps)
               EXCEPT !.pc = "msh", !.fq = FALSE, !.ret = "wexit"])
  /\ UNCHANGED <<lockfile, config, now, last_cleanup, calls, dbfiles>>

\* ---------------------------------------------------------------- Manager.shutdown
\* a Manager.shutdown that waits without asking the scheduler to stop
ShutdownUnrequested(me) == me

\* Manager.shutdown: self.scheduler.shutdown(finish_queue=finish_queue)
ShutdownRequest(me) == SchedShutdownCall(me, me.fq)

\* Manager.shutdown up to the wait
ManagerShutdown(p) ==
  /\ proc[p].pc = "msh"
  /\ Set(p, Goto(ShutdownRequest(proc[p]), "msh_wait"))
  /\ UNCHANGED <<lockfile, config, now, last_cleanup, calls, dbfiles>>

\* what follows Manager.shutdown at its call site
AfterShutdown(me) ==
  CASE me.ret = "wexit" -> Goto(me, "wexit")
    [] me.ret = "exit1" -> Raise(me, 1, "invalid config")
    [] OTHER -> Exited(me, 0, "done")

\* the teardown with the file removed whatever its name
TestFileAny(name) == TRUE

\* the teardown rail: `'test' in self.db_filename`
TestFile(name) == Contains("test", name)

\* Manager.shutdown after the wait: the manager.shutdown hook, engine.dispose(),
\* and in test mode the removal of the database file, refused with an
\* exception for a name that is not a test file's; then back to the caller
Teardown(me) ==
  LET m == [Emit(me, <<"manager.shutdown", "engine.dispose">>) EXCEPT !.engine = "disposed"]
  IN IF ~me.test THEN AfterShutdown(m)
     ELSE IF ~TestFile(me.db_filename) THEN Raise(m, 1, "non test database")
     ELSE AfterShutdown(Emit(m, <<"os.remove">>))

\* the database files after the teardown
TornDown(files, me) ==
  IF me.test /\ TestFile(me.db_filename) THEN DbRemove(files, me.db_filename) ELSE files

\* scheduler.wait() returns; the rest of Manager.shutdown
ShutdownFinish(p) ==
  /\ proc[p].pc = "msh_wait"
  /\ ~Alive(proc[p].sched)
  /\ Set(p, Teardown(proc[p]))
  /\ dbfiles' = TornDown(dbfiles, proc[p])
  /\ UNCHANGED <<lockfile, config, now, last_cleanup, calls>>

\* the except clause of the wait: the daemon fires manager.daemon.completed,
\* the execute command only logs
InterruptSteps(command) ==
  IF command = "daemon" THEN <<"KeyboardInterrupt", "manager.daemon.completed">>
  ELSE <<"KeyboardInterrupt">>

\* KeyboardInterrupt while the main thread is in scheduler.wait()
Interrupt(p) ==
  /\ \/ /\ proc[p].pc \in {"ex_wait", "dm_wait"}
        /\ Set(p, [Emit(proc[p], InterruptSteps(proc[p].command))
                     EXCEPT !.pc = "msh", !.fq = FALSE, !.ret = "wexit"])
        /\ UNCHANGED dbfiles
     \/ /\ proc[p].pc = "msh_wait"
        /\ Alive(proc[p].sched)
        /\ \E debug \in BOOLEAN :
             LET me == Emit(proc[p], <<"KeyboardInterrupt">>) IN
             IF debug
             THEN /\ Set(p, Raise(me, 1, "KeyboardInterrupt"))
                  /\ UNCHANGED dbfiles
             ELSE /\ Set(p, Teardown(me))
                  /\ dbfiles' = TornDown(dbfiles, me)
  /\ UNCHANGED <<lockfile, config, now, last_cleanup, calls>>

\* ---------------------------------------------------------------- daemon
IpcPort(d) == BasePort + d
Listening(d) == proc[d].ipc \in {"bound", "trunc", "serving"} /\ proc[d].pc # "exited"

\* ipc_server.start(), manager.daemon.started, scheduler.start()
DaemonStart(p) ==
  /\ proc[p].pc = "dm_ipc"
  /\ Set(p, [Emit(proc[p], <<"ipc_server.start", "manager.daemon.started">>)
               EXCEPT !.pc = "dm_wait", !.ipc = "bound",
                      !.sched = SchedulerStart(proc[p].sched)])
  /\ UNCHANGED <<lockfile, config, now, last_cleanup, calls, dbfiles>>

\* the IPC server thread, listening: manager.write_lock(ipc_port=port), the open
IpcWriteOpen(p) ==
  /\ proc[p].ipc = "bound"
  /\ proc[p].pc # "exited"
  /\ IF proc[p].has_lock
     THEN /\ lockfile' = Truncate(lockfile)
          /\ Set(p, [proc[p] EXCEPT !.ipc = "trunc"])
     ELSE /\ Set(p, [proc[p] EXCEPT !.ipc = "serving"])
          /\ UNCHANGED lockfile
  /\ UNCHANGED <<config, now, last_cleanup, calls, dbfiles>>

\* the IPC server thread: the PID and Port lines are written and the file closed
IpcWriteClose(p) ==
  /\ proc[p].ipc = "trunc"
  /\ proc[p].pc # "exited"
  /\ lockfile' = write_lock(proc[p].pid, lockfile, IpcPort(p))
  /\ Set(p, [proc[p] EXCEPT !.ipc = "serving"])
  /\ UNCHANGED <<config, now, last_cleanup, calls, dbfiles>>

\* ---------------------------------------------------------------- execute, delegated
\* a loop that stops one task early
AfterForwardEarly(ts, i) == IF i + 1 >= Len(ts) THEN "msh" ELSE "dl_fwd"

\* the loop `for task in tasks: client.execute(task, dict(options))`, i tasks
\* done; self.shutdown() follows it
AfterForward(ts, i) == IF i >= Len(ts) THEN "msh" ELSE "dl_fwd"

\* client = IPCClient(port)
Connect(p) ==
  /\ proc[p].pc = "dl_conn"
  /\ Set(p, IF \E d \in Procs : Listening(d) /\ IpcPort(d) = proc[p].rl.v
            THEN [proc[p] EXCEPT !.pc = AfterForward(proc[p].tasks, 0), !.idx = 1,
                                 !.fq = TRUE, !.ret = "return"]
            ELSE Raise(proc[p], 1, "refused"))
  /\ UNCHANGED <<lockfile, config, now, last_cleanup, calls, dbfiles>>

\* client.execute(task, dict(options)): the daemon's scheduler.execute(task)
Forward(p) ==
  /\ proc[p].pc = "dl_fwd"
  /\ LET me == proc[p]
         d == me.rl.v - BasePort
         t == me.tasks[me.idx]
     IN IF d \in Procs /\ Listening(d)
        THEN proc' = [proc EXCEPT
               ![d].queue = SchedulerExecute(config, proc[d].sched, proc[d].queue, t),
               ![p] = [me EXCEPT !.sent = Append(me.sent, <<me.rl.v, t>>),
                                 !.idx = me.idx + 1,
                                 !.pc = AfterForward(me.tasks, me.idx)]]
        ELSE Set(p, Raise(me, 1, "disconnected"))
  /\ UNCHANGED <<lockfile, config, now, last_cleanup, calls, dbfiles>>

\* ---------------------------------------------------------------- db_cleanup
\* persist.get('last_cleanup', datetime(1900, 1, 1))
PersistGet(v, default) == IF v = Unset THEN default ELSE v

\* an `expired` test that counts the last day of the interval as elapsed
ExpiredInclusive(last, t) == last <= t - DB_CLEANUP_INTERVAL

\* the `expired` test of db_cleanup
Expired(last, t) == last < t - DB_CLEANUP_INTERVAL

\* time passes
Tick ==
  /\ now < MaxTime
  /\ now' = now + 1
  /\ UNCHANGED <<lockfile, config, proc, last_cleanup, calls, dbfiles>>

\* the files after the manager.db_cleanup handlers have used their session,
\* which is bound to the engine of the manager that runs
CleanedUp(files) ==
  LET bound == {proc[p].db_filename : p \in {q \in Procs : proc[q].engine = "open"}}
  IN IF bound = {} THEN {files} ELSE {DbWrite(files, n) : n \in bound}

\* how a cleanup that runs may end: its handlers or the commit may raise
CleanupOutcomes == {"ok", "handler fails", "commit fails"}

\* a cleanup that marks the tasks before it commits
CleanupStepsMarkFirst(run, outcome) ==
  CASE ~run -> <<>>
    [] outcome = "handler fails" -> <<>>
    [] outcome = "commit fails" -> <<"config_changed">>
    [] OTHER -> <<"config_changed", "commit", "last_cleanup">>

\* db_cleanup: what a call gets done, in order. session.commit() follows the
\* handlers, self.config_changed() the commit, and the write of
\* persist['last_cleanup'] comes last; an exception leaves the method
CleanupSteps(run, outcome) ==
  CASE ~run -> <<>>
    [] outcome = "ok" -> <<"commit", "config_changed", "last_cleanup">>
    [] OTHER -> <<>>

\* the tasks whose config is marked as changed, before the next call
Flagged == IF calls = <<>> THEN {} ELSE calls[Len(calls)].flags

\* config_changed(): every task of self.tasks is marked
config_changed(cfg) == 1..Len(cfg)

Did(steps, e) == \E i \in 1..Len(steps) : steps[i] = e

\* db_cleanup(force)
DbCleanup ==
  /\ Len(calls) < MaxCalls
  /\ \E force \in BOOLEAN, outcome \in CleanupOutcomes :
       LET expired == Expired(PersistGet(last_cleanup, NeverCleaned), now)
           run == force \/ expired
           steps == CleanupSteps(run, outcome)
       IN /\ ~run => outcome = "ok"
          /\ last_cleanup' = IF Did(steps, "last_cleanup") THEN now ELSE last_cleanup
          /\ calls' = Append(calls, [force |-> force, at |-> now, mark |-> last_cleanup,
                                     ran |-> run, ok |-> run /\ outcome = "ok",
                                     outcome |-> outcome, steps |-> steps,
                                     flags |-> IF Did(steps, "config_changed")
                                               THEN config_changed(config)
                                               ELSE Flagged])
          /\ dbfiles' \in IF Did(steps, "commit") THEN CleanedUp(dbfiles) ELSE {dbfiles}
  /\ UNCHANGED <<lockfile, config, proc, now>>

\* ---------------------------------------------------------------- the system
\* two tasks are declared, the first with a priority
SpecConfig == [i \in 1..MaxTasks |-> IF i = 1 THEN 10 ELSE NoPrio]

\* the production database of earlier runs is there, and no other file
SpecFiles == [n \in DbNames |-> IF n = ProdName THEN "orig" ELSE "absent"]

InitDbVars ==
  /\ now = DB_CLEANUP_INTERVAL + 1
  /\ last_cleanup = Unset
  /\ calls = <<>>

\* no process runs yet; the lock file is absent or was left by a process that died
Init ==
  /\ proc = [p \in Procs |-> Blank(p)]
  /\ InitDbVars
  /\ config = SpecConfig
  /\ lockfile \in {NoFile, File(<<PidLine(DeadPid)>>),
                   File(<<PidLine(DeadPid), PortLine(BasePort)>>)}
  /\ dbfiles = SpecFiles

Next ==
  \/ \E p \in Procs : Start(p)
  \/ \E p \in Procs : InitDb(p)
  \/ \E p \in Procs : LoadConfig(p)
  \/ \E p \in Procs : StartupHooks(p)
  \/ \E p \in Procs : RunCli(p)
  \/ \E p \in Procs : Daemonize(p)
  \/ \E p \in Procs : IpcExists(p)
  \/ \E p \in Procs : IpcRead(p)
  \/ \E p \in Procs : AcquireEnter(p)
  \/ \E p \in Procs : AcquireRead(p)
  \/ \E p \in Procs : AcquireFail(p)
  \/ \E p \in Procs : WriteOpen(p)
  \/ \E p \in Procs : WriteClose(p)
  \/ \E p \in Procs : WithExit(p)
  \/ \E p \in Procs : ReleaseRemove(p)
  \/ \E p \in Procs : CbNest(p)
  \/ \E p \in Procs : CbLeave(p)
  \/ \E p \in Procs : CbReturn(p)
  \/ \E p \in Procs : TaskStart(p)
  \/ \E p \in Procs : TaskFinish(p)
  \/ \E p \in Procs : ExStart(p)
  \/ \E p \in Procs : ExEnqueue(p)
  \/ \E p \in Procs : ExDrain(p)
  \/ \E p \in Procs : ExWaitReturn(p)
  \/ \E p \in Procs : ManagerShutdown(p)
  \/ \E p \in Procs : ShutdownFinish(p)
  \/ \E p \in Procs : Interrupt(p)
  \/ \E p \in Procs : DaemonStart(p)
  \/ \E p \in Procs : IpcWriteOpen(p)
  \/ \E p \in Procs : IpcWriteClose(p)
  \/ \E p \in Procs : Connect(p)
  \/ \E p \in Procs : Forward(p)

Spec == Init /\ [][Next]_vars

\* ---------------------------------------------------------------- task ordering alone
\* the priorities a task may declare
Priorities == {10, 30, NoPrio}

\* the configurations with up to MaxTasks + 1 tasks
Configs == UNION {[1..n -> Priorities] : n \in 1..(MaxTasks + 1)}

\* every --tasks value over the declared tasks: none, or patterns each matching
\* some declared tasks
AllFilters(cfg) ==
  {NoFilter} \cup {{m} : m \in SUBSET (1..Len(cfg)) \ {{}}}

InitTasks ==
  /\ proc = [p \in Procs |-> Blank(p)]
  /\ InitDbVars
  /\ config \in Configs
  /\ lockfile = NoFile
  /\ dbfiles = SpecFiles

RunCliAny(p) == RunCliWith(p, AllFilters(config))

\* one process is started and taken to the end of task selection
NextTasks ==
  \/ Start(1)
  \/ InitDb(1)
  \/ LoadConfig(1)
  \/ StartupHooks(1)
  \/ RunCliAny(1)

SpecTasks == InitTasks /\ [][NextTasks]_vars

\* ---------------------------------------------------------------- cleanup alone
InitCleanup ==
  /\ proc = [p \in Procs |-> Blank(p)]
  /\ InitDbVars
  /\ config = SpecConfig
  /\ lockfile = NoFile
  /\ dbfiles = SpecFiles

NextCleanup == Tick \/ DbCleanup

SpecCleanup == InitCleanup /\ [][NextCleanup]_vars

\* ---------------------------------------------------------------- one observed run
\* the options of the observed runs
RunOptions == {o \in Options : o.traced}

\* the production database is there or not, and a test copy may have been left
RunFiles ==
  {[n \in DbNames |-> IF n = ProdName THEN prod ELSE IF n = TestName THEN copy ELSE "absent"] :
     prod \in {"absent", "orig"}, copy \in {"absent", "stale"}}

InitRun ==
  /\ proc = [p \in Procs |-> Blank(p)]
  /\ InitDbVars
  /\ config = SpecConfig
  /\ lockfile \in {NoFile, File(<<PidLine(DeadPid)>>)}
  /\ dbfiles \in RunFiles

StartRun(p) == StartWith(p, BuiltinCommands, RunOptions)

\* db_cleanup called once, while a task of p runs
TaskCleanup(p) == proc[p].running # NoTask /\ calls = <<>> /\ DbCleanup

\* one process, with every built-in command and every option, run alone and
\* observed
NextRun ==
  \/ StartRun(1)
  \/ InitDb(1)
  \/ LoadConfig(1)
  \/ StartupHooks(1)
  \/ RunCli(1)
  \/ Daemonize(1)
  \/ WebuiStart(1)
  \/ IpcExists(1)
  \/ IpcRead(1)
  \/ AcquireEnter(1)
  \/ AcquireRead(1)
  \/ WriteOpen(1)
  \/ WriteClose(1)
  \/ WithExit(1)
  \/ ReleaseRemove(1)
  \/ TaskStart(1)
  \/ TaskFinish(1)
  \/ TaskCleanup(1)
  \/ ExStart(1)
  \/ ExEnqueue(1)
  \/ ExDrain(1)
  \/ ExWaitReturn(1)
  \/ ManagerShutdown(1)
  \/ ShutdownFinish(1)
  \/ Interrupt(1)
  \/ DaemonStart(1)
  \/ IpcWriteOpen(1)
  \/ IpcWriteClose(1)

SpecRun == InitRun /\ [][NextRun]_vars

\* ---------------------------------------------------------------- runs that are not starved
\* a daemon that holds the lock and serves on its port
ServingDaemon(d) ==
  [Blank(d) EXCEPT !.pc = "dm_wait", !.command = "daemon", !.has_lock = TRUE,
                   !.acq = <<TRUE>>, !.sched = "Running", !.ipc = "serving",
                   !.wrote = TRUE, !.db_filename = ProdName, !.engine = "open",
                   !.registered = TRUE]

\* process 1 is started on a free configuration, or on one whose daemon
\* (process 2) serves
InitLive ==
  /\ InitDbVars
  /\ config = SpecConfig
  /\ \/ /\ proc = [p \in Procs |-> Blank(p)]
        /\ lockfile = NoFile
        /\ dbfiles = SpecFiles
     \/ /\ proc = [p \in Procs |-> IF p = 2 THEN ServingDaemon(p) ELSE Blank(p)]
        /\ lockfile = File(LockText(2, IpcPort(2)))
        /\ dbfiles = DbWrite(SpecFiles, ProdName)

LiveOptions == {o \in Options : ~o.traced /\ ~o.del_db}

StartLive(p) == StartWith(p, BuiltinCommands, LiveOptions)

\* the first KeyboardInterrupt of a run: the one that arrives in the wait of
\* the command, none during Manager.shutdown
FirstInterrupt(p) == proc[p].pc \in {"ex_wait", "dm_wait"} /\ Interrupt(p)

\* the steps of process 1
NextLive ==
  \/ StartLive(1)
  \/ InitDb(1)
  \/ LoadConfig(1)
  \/ StartupHooks(1)
  \/ RunCli(1)
  \/ Daemonize(1)
  \/ WebuiStart(1)
  \/ IpcExists(1)
  \/ IpcRead(1)
  \/ AcquireEnter(1)
  \/ AcquireRead(1)
  \/ AcquireFail(1)
  \/ WriteOpen(1)
  \/ WriteClose(1)
  \/ WithExit(1)
  \/ ReleaseRemove(1)
  \/ TaskStart(1)
  \/ TaskFinish(1)
  \/ ExStart(1)
  \/ ExEnqueue(1)
  \/ ExDrain(1)
  \/ ExWaitReturn(1)
  \/ ManagerShutdown(1)
  \/ ShutdownFinish(1)
  \/ FirstInterrupt(1)
  \/ DaemonStart(1)
  \/ IpcWriteOpen(1)
  \/ IpcWriteClose(1)
  \/ Connect(1)
  \/ Forward(1)

\* the process is scheduled, and so are its threads: a task that runs ends
SpecLive == InitLive /\ [][NextLive]_vars /\ WF_vars(NextLive)

\* ---------------------------------------------------------------- execute runs, not interrupted
StartExecute(p) == StartWith(p, {"execute"}, SpecOptions)

\* the processes run `flexget execute` on the same configuration, and no
\* KeyboardInterrupt arrives
NextExecute ==
  \/ \E p \in Procs : StartExecute(p)
  \/ \E p \in Procs : InitDb(p)
  \/ \E p \in Procs : LoadConfig(p)
  \/ \E p \in Procs : StartupHooks(p)
  \/ \E p \in Procs : RunCli(p)
  \/ \E p \in Procs : IpcExists(p)
  \/ \E p \in Procs : IpcRead(p)
  \/ \E p \in Procs : AcquireEnter(p)
  \/ \E p \in Procs : AcquireRead(p)
  \/ \E p \in Procs : AcquireFail(p)
  \/ \E p \in Procs : WriteOpen(p)
  \/ \E p \in Procs : WriteClose(p)
  \/ \E p \in Procs : WithExit(p)
  \/ \E p \in Procs : ReleaseRemove(p)
  \/ \E p \in Procs : TaskStart(p)
  \/ \E p \in Procs : TaskFinish(p)
  \/ \E p \in Procs : ExStart(p)
  \/ \E p \in Procs : ExEnqueue(p)
  \/ \E p \in Procs : ExDrain(p)
  \/ \E p \in Procs : ExWaitReturn(p)
  \/ \E p \in Procs : ManagerShutdown(p)
  \/ \E p \in Procs : ShutdownFinish(p)

SpecExecute == Init /\ [][NextExecute]_vars

\* ---------------------------------------------------------------- daemonize alone
StartDaemon(p) == StartWith(p, {"daemon", "webui"}, RunOptions)

\* one daemon or webui command, observed up to the return of daemonize()
NextDaemonize ==
  \/ StartDaemon(1)
  \/ InitDb(1)
  \/ LoadConfig(1)
  \/ StartupHooks(1)
  \/ RunCli(1)
  \/ ManagerShutdown(1)
  \/ ShutdownFinish(1)
  \/ DzEnter(1)
  \/ \E n \in 1..2 : DzFork(1, n)
  \/ \E n \in 1..2 : DzParent(1, n)
  \/ DzDetach(1)
  \/ DzRedirect(1)

SpecDaemonize == InitRun /\ [][NextDaemonize]_vars

\* ---------------------------------------------------------------- constructions in one interpreter
\* Here the records of proc are the Manager objects one interpreter constructs,
\* one after the other, as the unit tests do; an exception of the constructor
\* (AssertionError, SystemExit) is caught by the caller, and an object that has
\* "exited" is one whose constructor raised.
Constructing(p) == proc[p].pc \in {"init_db", "init_cfg", "init_hooks", "msh", "msh_wait"}
Constructed(p) == proc[p].pc = "cmd"
\* the objects the module global `manager` refers to
Registered == {p \in Procs : proc[p].registered}

\* Manager(options): `assert not manager`, then the fields; the interpreter
\* runs one constructor at a time
NewManager(p) ==
  /\ \A q \in Procs : ~Constructing(q)
  /\ IF Registered # {}
     THEN /\ proc[p].pc = "new"
          /\ Set(p, Raise(proc[p], 1, "AssertionError"))
          /\ UNCHANGED <<lockfile, config, now, last_cleanup, calls, dbfiles>>
     ELSE StartWith(p, Commands, SpecOptions)

\* __del__ of an object whose constructor raised, when the last reference to it
\* is dropped: `manager = None`, whichever object the global referred to
Del(p) ==
  /\ proc[p].pc = "exited"
  /\ proc' = [q \in Procs |-> IF q = p THEN Blank(p)
                              ELSE [proc[q] EXCEPT !.registered = FALSE]]
  /\ UNCHANGED <<lockfile, config, now, last_cleanup, calls, dbfiles>>

NextSingleton ==
  \/ \E p \in Procs : NewManager(p)
  \/ \E p \in Procs : InitDb(p)
  \/ \E p \in Procs : LoadConfig(p)
  \/ \E p \in Procs : StartupHooks(p)
  \/ \E p \in Procs : ManagerShutdown(p)
  \/ \E p \in Procs : ShutdownFinish(p)
  \/ \E p \in Procs : Del(p)

SpecSingleton == InitRun /\ [][NextSingleton]_vars

\* ---------------------------------------------------------------- Manager.shutdown alone
\* a manager at a call of Manager.shutdown with no lock held and a scheduler
\* that was never started: from initialize() or after delegating. options.test
\* and db_filename are attributes the caller may have set, as the unit tests do
\* before initialize(); the file the engine is on exists
AtShutdown ==
  {[Blank(1) EXCEPT !.pc = "msh", !.command = "execute", !.fq = fq, !.ret = ret,
                    !.test = t, !.db_filename = n, !.engine = "open",
                    !.registered = (ret = "return"), !.traced = TRUE] :
     fq \in BOOLEAN, ret \in {"exit1", "return"}, t \in BOOLEAN, n \in DbNames}

InitTeardown ==
  /\ \E m \in AtShutdown :
       /\ proc = [p \in Procs |-> IF p = 1 THEN m ELSE Blank(p)]
       /\ dbfiles \in [DbNames -> {"absent", "orig", "written"}]
       /\ dbfiles[m.db_filename] # "absent"
  /\ InitDbVars
  /\ config = SpecConfig
  /\ lockfile = NoFile

NextTeardown == ManagerShutdown(1) \/ ShutdownFinish(1)

SpecTeardown == InitTeardown /\ [][NextTeardown]_vars

\* ================================================================ properties
\* the outermost acquire_lock() frame of p has written the lock file
Acquired(p) == proc[p].acq # <<>> /\ proc[p].acq[1]

\* p is inside an acquired scope
InScope(p) == proc[p].has_lock /\ Acquired(p)

\* no process other than p has ever opened the lock file for writing
OnlyWriter(p) == \A q \in Procs \ {p} : ~proc[q].wrote

\* the lock file exists and its first line records the PID of p
RecordsPid(p) ==
  /\ lockfile.exists
  /\ lockfile.lines # <<>>
  /\ lockfile.lines[1] = PidLine(proc[p].pid)

\* the step is one of process p
StepOf(p) == proc'[p] # proc[p]

\* C1: at most one live process is inside an acquired scope (has_lock true) at
\* any time, whatever the interleaving of the acquire_lock steps of the processes.
C1_MutualExclusion ==
  \A p, q \in Procs : p # q => ~(InScope(p) /\ InScope(q))

\* a step in which p changes the database: the schema drop/create of
\* init_sqlalchemy, the upgrade/db_upgraded/startup hooks, or a task run
DbMutation(p) ==
  \/ proc[p].pc = "init_db" /\ proc'[p].pc = "init_cfg"
  \/ proc[p].pc = "init_hooks" /\ proc'[p].pc = "cmd"
  \/ Len(proc'[p].completed) > Len(proc[p].completed)

\* C2: while another live process holds the lock, a process performs no
\* mutating database operation unless it holds the lock itself.
C2_SingleWriter ==
  [][\A p \in Procs : (DbMutation(p) /\ OtherHolds(p)) => proc[p].has_lock]_vars

\* C3: when the lock file records a PID that is neither the caller's nor that
\* of a live process, with or without a Port line, check_lock is false and
\* check_ipc_port is None, the caller's acquire_lock goes on to write the file
\* instead of failing or delegating, and once it has acquired, the file records
\* the caller's PID (no other process having written the file).
C3_StaleLockRecovery ==
  \A p \in Procs :
    proc[p].stale =>
      /\ ~check_lock(proc[p].rl)
      /\ check_ipc_port(proc[p].rl) = None
      /\ proc[p].pc \notin {"acq_fail", "dl_conn", "dl_fwd"}
      /\ (proc[p].why = "contention" => proc[p].pc = "exited")
      /\ (InScope(p) /\ OnlyWriter(p) /\ proc[p].ipc # "trunc") => RecordsPid(p)

\* C3 is reached: a process found a stale lock, acquired, and the file records its PID
C3_Witness ==
  \E p \in Procs :
    /\ proc[p].stale
    /\ InScope(p)
    /\ proc[p].pc \in {"ex_start", "dm_ipc", "cb"}
    /\ lockfile = File(<<PidLine(proc[p].pid)>>)

\* the positions of acquire_lock and release_lock that read, write or remove the file
FilePositions == {"acq_read", "acq_fail", "acq_trunc", "acq_flush", "rel_remove"}

\* C4: inside one process only the outermost acquire_lock writes the lock file
\* and only its exit removes it: a nested acquire_lock never acquires, is never
\* at a position that writes or removes the file, no step taken inside it
\* changes the file, and after a nested scope is left has_lock is still true
\* and the file still records the PID of the process.
C4_FlatFlagReentrancy ==
  /\ [](\A p \in Procs :
          /\ \A i \in 2..Len(proc[p].acq) : ~proc[p].acq[i]
          /\ Len(proc[p].acq) >= 2 => Acquired(p) /\ proc[p].has_lock
          /\ Len(proc[p].acq) >= 2 => proc[p].pc \notin FilePositions
          /\ proc[p].leftInner => InScope(p)
          /\ (proc[p].leftInner /\ OnlyWriter(p)) => RecordsPid(p))
  /\ [][\A p \in Procs :
          (Len(proc[p].acq) >= 2 /\ StepOf(p)) => lockfile' = lockfile]_vars

\* C4 is reached: a nested scope has been left, the outer one is still open
C4_Witness ==
  \E p \in Procs :
    /\ proc[p].leftInner
    /\ proc[p].pc = "cb"
    /\ Len(proc[p].acq) = 1
    /\ proc[p].has_lock
    /\ lockfile = File(<<PidLine(proc[p].pid)>>)

\* p is on the delegation path of the execute command
Delegating(p) == proc[p].pc \in {"dl_conn", "dl_fwd"} \/ proc[p].ret = "return"

\* the invocations p has forwarded when n tasks are done
Forwarded(p, n) == [i \in 1..n |-> <<proc[p].rl.v, proc[p].tasks[i]>>]

\* C5: an execute request that found the lock held by a live process
\* advertising a port forwards exactly one invocation per selected task, in
\* order, to that port; it never starts its scheduler, runs no task, never
\* sets has_lock, never opens the lock file for writing, and none of its steps
\* changes the lock file.
C5_Delegation ==
  /\ [](\A p \in Procs :
          Delegating(p) =>
            /\ ~proc[p].rl.isbool
            /\ proc[p].sched = "Idle"
            /\ proc[p].queue = <<>>
            /\ proc[p].running = NoTask
            /\ proc[p].completed = <<>>
            /\ ~proc[p].has_lock
            /\ ~proc[p].wrote
            /\ proc[p].acq = <<>>
            /\ proc[p].sent =
                 Forwarded(p, CASE proc[p].pc = "dl_conn" -> 0
                                [] proc[p].pc = "dl_fwd" -> proc[p].idx - 1
                                [] OTHER -> Len(proc[p].tasks)))
  /\ [][\A p \in Procs : (Delegating(p) /\ StepOf(p)) => lockfile' = lockfile]_vars

\* C5 is reached: every selected task has been forwarded, the process is about to end
C5_Witness ==
  \E p \in Procs :
    /\ proc[p].pc = "msh_wait"
    /\ proc[p].ret = "return"
    /\ Len(proc[p].tasks) >= 2
    /\ Len(proc[p].sent) = Len(proc[p].tasks)
    /\ \E d \in Procs \ {p} : InScope(d) /\ proc[p].rl = RPort(IpcPort(d))

\* the last _read_lock of p reported a live holder without a Port line
HeldNoPort(p) == proc[p].rl.isbool /\ Truthy(proc[p].rl)

\* C6: a process whose read of the lock file reports a live holder without a
\* Port line does not delegate, does not start its scheduler or run a task,
\* does not set has_lock and does not write or remove the file: acquire_lock
\* fails, no step of the process changes the lock file, and the process ends
\* with exit status 1.
C6_ContentionNoPort ==
  /\ [](\A p \in Procs :
          /\ (HeldNoPort(p) \/ proc[p].pc = "acq_fail") =>
               /\ proc[p].pc \in {"acq_enter", "acq_read", "acq_fail", "wexit"}
               /\ ~proc[p].has_lock
               /\ \A i \in 1..Len(proc[p].acq) : ~proc[p].acq[i]
               /\ proc[p].sched = "Idle"
               /\ proc[p].completed = <<>>
               /\ proc[p].sent = <<>>
          /\ (proc[p].why = "contention" /\ proc[p].pc # "exited") =>
               proc[p].pc = "wexit" /\ proc[p].unw = 1
          /\ (proc[p].why = "contention" /\ proc[p].pc = "exited") => proc[p].status = 1)
  /\ [][\A p \in Procs :
          ((HeldNoPort(p) \/ proc[p].pc = "acq_fail") /\ StepOf(p)) => lockfile' = lockfile]_vars

\* C6 is reached: an execute request has failed on a lock without a Port line
\* that a live process holds
C6_Witness ==
  \E p \in Procs :
    /\ proc[p].command = "execute"
    /\ proc[p].why = "contention"
    /\ proc[p].pc = "wexit"
    /\ proc[p].rl = RTrue
    /\ \E q \in Procs \ {p} : InScope(q) /\ lockfile = File(<<PidLine(proc[q].pid)>>)

\* C7: whenever a daemon holds the lock, the lock file carries its Port line.
C7_DaemonPortLine ==
  \A d \in Procs :
    (proc[d].command = "daemon" /\ InScope(d) /\ OnlyWriter(d)) =>
      /\ lockfile.exists
      /\ Len(lockfile.lines) >= 2
      /\ lockfile.lines[2] = PortLine(IpcPort(d))

\* the work of the scheduler of p: completed, running, queued and dropped tasks
Work(p) ==
  Len(proc[p].completed) + (IF proc[p].running # NoTask THEN 1 ELSE 0)
    + Len(proc[p].queue) + Len(proc[p].dropped)

\* C8: with n tasks queued and r running when shutdown is first requested in
\* Running, a drain reaches Stopped only with all n + r completed and none
\* dropped, an abort reaches Stopped with only the r running completed and the
\* n queued dropped, and no task is accepted after the request; the execute
\* command has enqueued every selected task, in Running, before its drain.
C8_DrainVersusAbort ==
  \A p \in Procs :
    LET s == proc[p].shutAt IN
    /\ (proc[p].sched = "Stopped" /\ s.req = "drain" /\ ~s.ab) =>
         /\ Len(proc[p].completed) = s.c + s.n + s.r
         /\ proc[p].dropped = <<>>
    /\ (proc[p].sched = "Stopped" /\ s.req = "abort") =>
         /\ Len(proc[p].completed) = s.c + s.r
         /\ Len(proc[p].dropped) = s.n
    /\ s.req # "none" => Work(p) = s.c + s.n + s.r
    /\ (s.req = "none" /\ proc[p].pc # "exited") => proc[p].sched \in {"Idle", "Running"}
    /\ (proc[p].command = "execute" /\ s.req # "none") =>
         /\ s.req = "drain"
         /\ s.c + s.n + s.r = Len(proc[p].tasks)

\* C8 is reached: a drain requested with a task running and a task queued has
\* reached Stopped with both completed
C8_Witness ==
  \E p \in Procs :
    /\ proc[p].command = "execute"
    /\ proc[p].sched = "Stopped"
    /\ proc[p].shutAt.req = "drain"
    /\ proc[p].shutAt.n >= 1
    /\ proc[p].shutAt.r = 1
    /\ Len(proc[p].completed) = proc[p].shutAt.n + 1

\* C9: the selected tasks are enqueued or forwarded in ascending priority, a
\* task without priority counting as 65535, and tasks of equal priority in the
\* order in which the config declares them.
C9_PriorityOrder ==
  \A p \in Procs :
    LET ts == proc[p].tasks IN
    \A i, j \in 1..Len(ts) :
      i < j => \/ Key(config, ts[i]) < Key(config, ts[j])
               \/ Key(config, ts[i]) = Key(config, ts[j]) /\ ts[i] < ts[j]

\* the watermark of call c is unset or more than the interval before the call
Elapsed(c) == c.mark = Unset \/ c.at - c.mark > DB_CLEANUP_INTERVAL

\* C10: a db_cleanup call without force runs the cleanup exactly when more
\* than the 7-day interval has passed since the persisted last_cleanup (a
\* last_cleanup never written counts as passed); a call with force always runs
\* it; an unforced call within the interval after a cleanup that completed
\* does not run it again.
C10_IntervalGatedCleanup ==
  /\ \A i \in 1..Len(calls) :
       /\ ~calls[i].force => (calls[i].ran <=> Elapsed(calls[i]))
       /\ calls[i].force => calls[i].ran
  /\ \A i, j \in 1..Len(calls) :
       (i < j /\ calls[i].ok /\ ~calls[j].force
          /\ calls[j].at - calls[i].at <= DB_CLEANUP_INTERVAL) => ~calls[j].ran

\* C10 is reached: an unforced call ran on a watermark never set, an unforced
\* call within the interval did not run, and a forced call at that instant ran
C10_Witness ==
  /\ Len(calls) = 3
  /\ ~calls[1].force /\ calls[1].mark = Unset /\ calls[1].ran /\ calls[1].ok
  /\ ~calls[2].force /\ ~calls[2].ran /\ calls[2].at > calls[1].at
  /\ calls[3].force /\ calls[3].ran /\ calls[3].at = calls[2].at

\* ---------------------------------------------------------------- C11
\* p gets past the wait of Manager.shutdown in this step
TearsDown(p) ==
  /\ proc[p].pc = "msh_wait"
  /\ Len(proc'[p].events) > Len(proc[p].events)

\* the last two things p did
LastTwo(p) == SubSeq(proc[p].events, Len(proc[p].events) - 1, Len(proc[p].events))

\* C11: the teardown of Manager.shutdown. In test mode with a database file
\* name that does not contain "test" the shutdown ends in a fatal error and no
\* file is deleted; in test mode with such a name the file is removed, after
\* the engine has been disposed, and nothing else is; outside test mode no
\* database file is deleted.
C11_TeardownRail ==
  [][\A p \in Procs : TearsDown(p) =>
       LET me == proc[p]
           marked == Contains("test", me.db_filename)
       IN /\ (me.test /\ ~marked) =>
               /\ dbfiles' = dbfiles
               /\ proc'[p].pc = "exited" /\ proc'[p].status = 1
               /\ proc'[p].why = "non test database"
          /\ (me.test /\ marked) =>
               /\ dbfiles'[me.db_filename] = "absent"
               /\ \A n \in DbNames \ {me.db_filename} : dbfiles'[n] = dbfiles[n]
               /\ LastTwo(p)' = <<"engine.dispose", "os.remove">>
          /\ ~me.test => dbfiles' = dbfiles]_vars

\* a test-mode shutdown has refused to delete the production database, which
\* is still there
C11_Witness ==
  /\ proc[1].pc = "exited" /\ proc[1].why = "non test database"
  /\ "os.remove" \notin {proc[1].events[i] : i \in 1..Len(proc[1].events)}
  /\ dbfiles[ProdName] = "written" /\ dbfiles[TestName] = "orig"

\* ---------------------------------------------------------------- C12
\* C12: in test mode every database operation goes to the test copy. While a
\* process runs with options.test, its engine is on the test file, and no step
\* creates, writes, resets or deletes the production database: it holds after
\* every step what it held before.
C12_TestModeIsolation ==
  [][\A p \in Procs : (proc[p].test /\ (StepOf(p) \/ calls' # calls)) =>
       /\ dbfiles'[ProdName] = dbfiles[ProdName]
       /\ proc'[p].engine = "open" => proc'[p].db_filename = TestName]_vars

\* a test run on an existing production database has reset its copy, run a
\* task and a cleanup on it and removed it; the production database is as it was
C12_Witness ==
  /\ proc[1].pc = "exited" /\ proc[1].status = 0
  /\ \E i, j \in 1..Len(proc[1].events) :
       /\ proc[1].events[i] = "manager.execute.completed"
       /\ proc[1].events[j] = "os.remove"
  /\ Len(calls) > 0 /\ calls[1].ran
  /\ dbfiles[ProdName] = "orig" /\ dbfiles[TestName] = "absent"

\* ---------------------------------------------------------------- C13
\* the steps of Manager.__init__ and initialize() in the order claimed
InitOrder ==
  <<"find_config", "init_sqlalchemy", "manager.before_config_load", "load_config",
    "manager.before_config_validate", "validate_config", "manager.upgrade",
    "manager.db_upgraded", "manager.startup">>

IsInitStep(e) == \E k \in 1..Len(InitOrder) : InitOrder[k] = e
IsHook(e) == e \in {InitOrder[k] : k \in {3, 5, 7, 8, 9}}
Rank(e) == CHOOSE k \in 1..Len(InitOrder) : InitOrder[k] = e
Seen(p, e) == \E i \in 1..Len(proc[p].events) : proc[p].events[i] = e

\* the initialization steps p has taken, in the order it took them
InitTaken(p) == SelectSeq(proc[p].events, IsInitStep)

\* the number of initialization steps a run that ended for this reason may have taken
StepsBefore(why) ==
  CASE why = "no config" -> 1
    [] why = "no database" -> 2
    [] why = "config" -> 4
    [] why = "invalid config" -> 6
    [] OTHER -> Len(InitOrder)

\* C13: initialization takes its steps in one order: the config file is
\* located, the database initialized, 'before config load' fired, the config
\* loaded, 'before config validate' fired, the config validated, then
\* 'upgrade', 'db upgraded' only when the upgrade reported a change, and
\* 'startup'. No hook fires before the database is initialized, a document that
\* failed to parse is never validated, and a step that fails is the last one.
C13_InitOrder ==
  \A p \in Procs : proc[p].traced =>
    LET t == InitTaken(p) IN
    /\ \A i \in 1..Len(t) :
         Rank(t[i]) = IF i = 1 THEN 1
                      ELSE IF t[i - 1] = "manager.upgrade" /\ ~Seen(p, "db_upgraded = True")
                           THEN Rank(t[i - 1]) + 2
                           ELSE Rank(t[i - 1]) + 1
    /\ \A i \in 1..Len(proc[p].events) :
         IsHook(proc[p].events[i]) =>
           \E j \in 1..(i - 1) : proc[p].events[j] = "init_sqlalchemy"
    /\ Seen(p, "parse error") => ~Seen(p, "validate_config")
    /\ proc[p].pc = "exited" => Len(t) <= StepsBefore(proc[p].why)

\* a run has gone through all nine steps
C13_Witness ==
  /\ proc[1].pc = "cmd"
  /\ InitTaken(1) = InitOrder

\* ---------------------------------------------------------------- C14
\* C14: when validate_config returns errors, every one of them is logged, the
\* manager is shut down with finish_queue false and the process ends with
\* status 1. The upgrade, db_upgraded and startup hooks never fire, no task is
\* enqueued or run, the lock is never acquired and the process is never
\* registered as the active manager.
C14_InvalidConfig ==
  \A p \in Procs : (proc[p].traced /\ proc[p].errors # <<>>) =>
    LET me == proc[p] IN
    /\ me.logged = me.errors
    /\ me.pc \in {"msh", "msh_wait", "exited"}
    /\ me.pc \in {"msh", "msh_wait"} => ~me.fq
    /\ me.pc = "exited" => me.status = 1 /\ Seen(p, "manager.shutdown")
    /\ \A k \in 7..9 : ~Seen(p, InitOrder[k])
    /\ me.queue = <<>> /\ me.running = NoTask /\ me.completed = <<>>
    /\ me.sched = "Idle"
    /\ ~me.has_lock /\ ~me.wrote /\ ~Seen(p, "write_lock")
    /\ ~me.registered

\* a run whose config had two errors has logged both, shut down and ended
\* with status 1
C14_Witness ==
  /\ proc[1].pc = "exited" /\ proc[1].status = 1
  /\ Len(proc[1].errors) = 2 /\ proc[1].logged = proc[1].errors
  /\ Seen(1, "validate_config") /\ Seen(1, "manager.shutdown")

\* ---------------------------------------------------------------- C15
\* C15: at most one Manager is active in an interpreter at any time: a
\* construction attempted while one is active fails, and the instance that is
\* active stays the registered one, so that the attempts after it fail too.
C15_Singleton ==
  /\ Cardinality({p \in Procs : Constructed(p)}) <= 1
  /\ \A p \in Procs : Constructed(p) => Registered = {p}

\* ---------------------------------------------------------------- C16
\* C16: on a platform that is not POSIX, daemonize() fails and the failure is
\* fatal: a daemon or webui command run with --daemonize never goes on to
\* acquire the lock, to start the IPC server or to start the scheduler.
C16_DaemonizeUnsupported ==
  \A p \in Procs :
    (proc[p].command \in {"daemon", "webui"} /\ proc[p].flag /\ proc[p].platform = "win") =>
      /\ ~proc[p].has_lock /\ ~proc[p].wrote
      /\ proc[p].ipc = "off"
      /\ proc[p].sched = "Idle"

\* ---------------------------------------------------------------- C17
\* p is inside a call of Manager.shutdown
InShutdown(p) == proc[p].pc \in {"msh", "msh_wait"}

\* C17: every call of Manager.shutdown returns, when tasks that run end and no
\* interrupt arrives during it, whatever the scheduler's state at the call: also
\* one that was never started, as after delegating, after a validation failure
\* and after a missing webui dependency. A process that delegates ends.
C17_ShutdownReturns ==
  \A p \in Procs :
    /\ InShutdown(p) ~> ~InShutdown(p)
    /\ Delegating(p) ~> proc[p].pc = "exited"

\* a shutdown has been called on a scheduler that has work left
C17_Witness ==
  /\ proc[1].pc = "msh_wait"
  /\ proc[1].sched = "Aborting" /\ proc[1].running # NoTask

\* ---------------------------------------------------------------- C18
\* how often p did e, and when it first did
Count(p, e) == Cardinality({i \in 1..Len(proc[p].events) : proc[p].events[i] = e})
First(p, e) ==
  IF Seen(p, e) THEN CHOOSE i \in 1..Len(proc[p].events) :
                       /\ proc[p].events[i] = e
                       /\ \A j \in 1..(i - 1) : proc[p].events[j] # e
  ELSE 0

\* p is an observed execute command that runs its tasks itself
LocalRun(p) ==
  proc[p].traced /\ Seen(p, "manager.execute.started") /\ Count(p, "KeyboardInterrupt") <= 1

\* C18: in a local execute run the first interrupt that arrives during the wait
\* becomes a shutdown with finish_queue false: the task that runs is finished
\* and the tasks still queued are discarded. The 'execute completed' hook fires
\* exactly when the wait has returned without an interrupt. Either way the
\* manager is shut down and the lock is released after that.
C18_InterruptedRun ==
  \A p \in Procs : LocalRun(p) =>
    LET me == proc[p]
        k == First(p, "KeyboardInterrupt")
        c == First(p, "manager.execute.completed")
    IN /\ (k > 0 /\ c > 0) => c < k
       /\ me.pc \in {"msh", "msh_wait", "wexit", "rel_remove"} => (c > 0 <=> k = 0)
       /\ me.pc \in {"msh", "msh_wait"} => ~me.fq
       /\ (me.pc = "msh_wait" /\ k > 0) => me.queue = <<>>
       /\ me.pc \in {"wexit", "rel_remove"} =>
            /\ me.sched = "Stopped" /\ me.running = NoTask /\ me.queue = <<>>
            /\ Len(me.completed) + Len(me.dropped) = Len(me.tasks)
            /\ k = 0 => me.dropped = <<>>
            /\ Seen(p, "manager.shutdown")
            /\ me.has_lock
       /\ me.pc = "exited" =>
            /\ c > 0 \/ k > 0
            /\ 0 < First(p, "manager.shutdown")
            /\ First(p, "manager.shutdown") < First(p, "release_lock")
            /\ lockfile = NoFile

\* an interrupted run has finished the task that ran, dropped the other, fired
\* no completion hook, shut the manager down and is about to release the lock
C18_Witness ==
  /\ proc[1].pc = "wexit" /\ LocalRun(1)
  /\ Seen(1, "KeyboardInterrupt") /\ ~Seen(1, "manager.execute.completed")
  /\ Len(proc[1].completed) = 1 /\ Len(proc[1].dropped) = 1
  /\ Seen(1, "manager.shutdown")

\* ---------------------------------------------------------------- C19
\* C19: in a local execute run that is not interrupted the lock file is written
\* before the scheduler is started, it records the PID of the process in every
\* state in which a task of the run is queued or running, and it is removed
\* only when the scheduler has stopped.
C19_LockCoversRun ==
  \A p \in Procs : (proc[p].command = "execute" /\ proc[p].sched # "Idle") =>
    /\ proc[p].wrote /\ Acquired(p)
    /\ (proc[p].queue # <<>> \/ proc[p].running # NoTask) => RecordsPid(p)
    /\ proc[p].pc = "rel_remove" => proc[p].sched = "Stopped"

\* ---------------------------------------------------------------- C20
\* p is a daemon started with --daemonize on a POSIX system
Daemonizing(p) ==
  proc[p].command = "daemon" /\ proc[p].flag /\ proc[p].platform = "posix"

\* C20: with --daemonize the lock is acquired only after the daemonization is
\* complete. The process that takes the lock and writes the file is the
\* surviving background process, the PID of the process that was started and
\* left in the forks is never recorded in the lock file and that process
\* neither writes nor removes it, and the lock is held for as long as the
\* daemon is inside its scheduler wait.
C20_DaemonizeBeforeLock ==
  \A p \in Procs : Daemonizing(p) =>
    /\ proc[p].pc = "daemonize" =>
         ~proc[p].wrote /\ ~proc[p].has_lock /\ proc[p].acq = <<>>
    /\ (proc[p].wrote \/ proc[p].has_lock) => proc[p].pid = ForkedPid(p)
    /\ (lockfile.exists /\ lockfile.lines # <<>>) => lockfile.lines[1] # PidLine(p)
    /\ proc[p].pc \in {"dm_ipc", "dm_wait"} => proc[p].has_lock /\ Acquired(p)

\* a daemonized daemon waits on its scheduler, and the lock file records the
\* PID of the background process
C20_Witness ==
  \E p \in Procs :
    /\ Daemonizing(p) /\ proc[p].pc = "dm_wait"
    /\ proc[p].pid = ForkedPid(p) /\ RecordsPid(p)

\* ---------------------------------------------------------------- C21
IsPrefix(s, t) == Len(s) <= Len(t) /\ \A i \in 1..Len(s) : s[i] = t[i]
Elems(s) == {s[i] : i \in 1..Len(s)}

\* what the process that comes out of daemonize() has done, as the code does it
SurvivorOrder ==
  <<"fork 1", "chdir /", "setsid", "umask 0", "fork 2", "redirect stdio", "daemonize returns">>
ParentOrder(n) == <<ForkEvent(n), ClearEvent(n), ExitEvent(n)>>

IsSurvivorStep(e) == e \in Elems(SurvivorOrder)
IsParent1Step(e) == e \in Elems(ParentOrder(1))
IsParent2Step(e) == e \in Elems(ParentOrder(2))

\* the forks and parents of p keep to the protocol
ParentsInOrder(p) ==
  /\ IsPrefix(SelectSeq(proc[p].events, IsParent1Step), ParentOrder(1))
  /\ IsPrefix(SelectSeq(proc[p].events, IsParent2Step), ParentOrder(2))
  /\ Seen(p, "daemonize returns") =>
       /\ Count(p, "daemonize returns") = 1
       /\ proc[p].pc # "exited" => proc[p].pid = ForkedPid(p)

\* C21, as the code has it: daemonize forks; the first parent clears its exit
\* handlers and exits with status 0; the child changes its working directory to
\* the root, then becomes a session leader, then resets the umask, and forks
\* again; the second parent clears its exit handlers and exits with status 0;
\* the last process redirects its standard streams and is the only one that
\* returns from daemonize.
C21_DetachOrder ==
  \A p \in Procs : proc[p].traced =>
    /\ IsPrefix(SelectSeq(proc[p].events, IsSurvivorStep), SurvivorOrder)
    /\ ParentsInOrder(p)

\* C21, as claimed: the same protocol in which the child becomes a session
\* leader first and changes its working directory after that.
C21_DetachOrderClaimed ==
  \A p \in Procs : proc[p].traced =>
    /\ IsPrefix(SelectSeq(proc[p].events, IsSurvivorStep),
                <<"fork 1", "setsid", "chdir /", "umask 0", "fork 2",
                  "redirect stdio", "daemonize returns">>)
    /\ ParentsInOrder(p)

\* a daemonize that warned of a second thread has gone through the whole
\* protocol: both parents are gone and the last process has returned
C21_Witness ==
  /\ proc[1].pc = "acq_enter" /\ proc[1].pid = ForkedPid(1)
  /\ Seen(1, "log.critical threads")
  /\ Seen(1, ExitEvent(1)) /\ Seen(1, ExitEvent(2))
  /\ SelectSeq(proc[1].events, IsSurvivorStep) = SurvivorOrder

\* ---------------------------------------------------------------- C22
\* the watermark and the flags before and after the i-th call
MarkAfter(i) == IF i = Len(calls) THEN last_cleanup ELSE calls[i + 1].mark
FlagsBefore(i) == IF i = 1 THEN {} ELSE calls[i - 1].flags

\* C22: a db_cleanup call that completes commits the handlers' changes, then
\* marks the configuration of every known task as changed, then sets
\* last_cleanup to the current time; a call that is skipped, or whose handlers
\* or commit fail, leaves last_cleanup and every task's flag as they were, so
\* that an unforced call after a due cleanup that failed runs the cleanup.
C22_CleanupEffects ==
  \A i \in 1..Len(calls) :
    /\ calls[i].ok =>
         /\ calls[i].steps = <<"commit", "config_changed", "last_cleanup">>
         /\ calls[i].flags = 1..Len(config)
         /\ MarkAfter(i) = calls[i].at
    /\ ~calls[i].ok =>
         /\ calls[i].steps = <<>>
         /\ calls[i].flags = FlagsBefore(i)
         /\ MarkAfter(i) = calls[i].mark
    /\ (i < Len(calls) /\ ~calls[i].force /\ calls[i].ran /\ ~calls[i].ok
          /\ ~calls[i + 1].force) => calls[i + 1].ran

\* a cleanup failed in its commit and left no trace, the unforced call after
\* it ran and completed, and a third call was skipped
C22_Witness ==
  /\ Len(calls) = 3
  /\ ~calls[1].force /\ calls[1].outcome = "commit fails" /\ calls[1].flags = {}
  /\ ~calls[2].force /\ calls[2].ok /\ calls[2].flags = 1..Len(config)
  /\ last_cleanup = calls[2].at
  /\ ~calls[3].ran /\ calls[3].flags = calls[2].flags

\* ---------------------------------------------------------------- C23
\* C23: in every reachable state, a process whose _has_lock flag is set finds
\* the lock file in place with its own PID on the first line.
C23_HasLockMeansFile ==
  \A p \in Procs : proc[p].has_lock => RecordsPid(p)

\* ---------------------------------------------------------------- C24
\* process q runs
Running(q) == proc[q].pc \notin {"new", "exited"}

\* the step is the os.remove of release_lock() in process p
Removes(p) ==
  /\ proc[p].pc = "rel_remove"
  /\ StepOf(p)
  /\ lockfile.exists /\ ~lockfile'.exists

\* C24: the os.remove of a release never deletes a lock file that records the
\* PID of another running process.
C24_ReleaseOwnLock ==
  [][\A p \in Procs : Removes(p) =>
       \A q \in Procs \ {p} : ~(Running(q) /\ RecordsPid(q))]_vars

\* ---------------------------------------------------------------- C25
\* the step is the open and parse of _read_lock() in process p, after its
\* os.path.exists test found the file
ReadsLock(p) == proc[p].pc \in {"ipc_read", "acq_read"} /\ StepOf(p)

\* what a read of file f may return
ReadResults(f) ==
  {RFalse, RTrue} \cup (IF Len(f.lines) > 1 THEN {RPort(f.lines[2].v)} ELSE {})

\* C25: a read of the lock file that runs next to the writes and the release
\* of another process ends with a result (no lock, own lock, or a foreign lock
\* with the port in the file or with none); it does not fail on a file that
\* has disappeared or is empty.
C25_ReadIsTotal ==
  [][\A p \in Procs : ReadsLock(p) =>
       /\ proc'[p].why \notin {"IOError", "IndexError"}
       /\ ReadOutcome(lockfile) = "ok" => proc'[p].rl \in ReadResults(lockfile)]_vars

\* ---------------------------------------------------------------- C26
\* p has written the lock file in an acquired scope and is in no scope now
LeftScope(p) == proc[p].wrote /\ proc[p].acq = <<>>

\* C26: once a process has left its outermost acquired scope, by the end of
\* the body, by an exception or a fatal exit in the body, or by an interrupt,
\* the lock file does not record its PID any more, and if the process goes on
\* running its _has_lock flag is reset.
C26_ReleasedOnEveryPath ==
  \A p \in Procs : LeftScope(p) =>
    /\ ~RecordsPid(p)
    /\ Running(p) => ~proc[p].has_lock

\* a plugin command has left its acquired scope and runs on, and a command
\* that was interrupted during its shutdown has ended; no lock file is left
C26_Witness ==
  /\ LeftScope(1) /\ proc[1].pc = "cb" /\ ~proc[1].has_lock
  /\ LeftScope(2) /\ proc[2].pc = "exited" /\ proc[2].why = "KeyboardInterrupt"
  /\ ~lockfile.exists

====
